---- MODULE Spec2Model ----
(***************************************************************************)
(* Adaptive batch classification pipeline of git-commit-categories         *)
(* (commit-analyzer.ts): BatchManager, RateLimitManager, callLLMWithRetry, *)
(* classifyCommitsBatch and processCommitsInAdaptiveBatches.               *)
(*                                                                         *)
(* Fractions.  growthFactor and decayFactor are JavaScript numbers; the    *)
(* model stores them in tenths (15 is 1.5, 6 is 0.6) and computes          *)
(* Math.floor(size * f) as (size * f) \div 10.  For the factors and sizes  *)
(* the model draws (sizes below 64, decay 0.1, 0.6, 0.9, growth 1.1, 1.5,  *)
(* 2.0) the result equals the IEEE-754 double computation of the source.   *)
(***************************************************************************)
EXTENDS Integers, Sequences, FiniteSets, TLC

\* ------------------------------------------------------------------------
\* Bounds of the model
\* ------------------------------------------------------------------------
MaxBatch == 6
MaxCount == 8
MaxCommits == 2
LongRun == 14
MaxTicks == 1

Min(a, b) == IF a < b THEN a ELSE b
Max(a, b) == IF a > b THEN a ELSE b

\* Counters of the source are unbounded numbers; the model saturates them at
\* MaxCount.  consecutiveFailures only acts through min(0.8, decay + 0.1*n),
\* constant from n = 7 on, and contextOverflowCount is only reported.
Bump(n) == IF n < MaxCount THEN n + 1 ELSE n

\* ------------------------------------------------------------------------
\* BatchManager  (commit-analyzer.ts 226-292)
\* ------------------------------------------------------------------------
DefaultMaxRetries == 3
DefaultBaseDelay == 500
DefaultContextLimit == 30000

GrowthFactors == {11, 15, 20}
DecayFactors == {1, 6, 9}

\* Configurations of the batch controller: 1 <= min <= initial <= max,
\* growthFactor > 1, 0 < decayFactor < 1, successThreshold >= 1.
BatchConfigs ==
  { [minBatchSize |-> mn, initialBatchSize |-> ini, maxBatchSize |-> mx,
     growthFactor |-> g, decayFactor |-> d, successThreshold |-> th,
     maxRetries |-> DefaultMaxRetries, baseDelay |-> DefaultBaseDelay,
     contextLimitThreshold |-> DefaultContextLimit] :
       mn \in 1..2, ini \in 1..MaxBatch, mx \in 1..MaxBatch,
       g \in GrowthFactors, d \in DecayFactors, th \in 1..2 }

validBatchConfig(cfg) ==
  /\ cfg.minBatchSize >= 1
  /\ cfg.minBatchSize <= cfg.initialBatchSize
  /\ cfg.initialBatchSize <= cfg.maxBatchSize
  /\ cfg.growthFactor > 10
  /\ cfg.decayFactor > 0 /\ cfg.decayFactor < 10
  /\ cfg.successThreshold >= 1

\* new BatchManager(config)
NewBatchManager(cfg) ==
  [currentBatchSize |-> cfg.initialBatchSize,
   consecutiveSuccesses |-> 0,
   consecutiveFailures |-> 0,
   contextOverflowCount |-> 0]

\* Math.min(maxBatchSize, Math.floor(currentBatchSize * growthFactor))
GrowSizeUnclamped(size, cfg) == (size * cfg.growthFactor) \div 10
GrowSize(size, cfg) == Min(cfg.maxBatchSize, (size * cfg.growthFactor) \div 10)

\* Math.max(minBatchSize, Math.floor(currentBatchSize * rate)), rate in tenths
DecaySizeRounded(size, cfg, rate) ==
  Max(cfg.minBatchSize, (size * rate + 5) \div 10)
DecaySizeCeil(size, cfg, rate) ==
  Max(cfg.minBatchSize, (size * rate + 9) \div 10)
DecaySize(size, cfg, rate) == Max(cfg.minBatchSize, (size * rate) \div 10)

\* Math.min(0.8, decayFactor + consecutiveFailures * 0.1), in tenths
DecayRateBeforeIncrement(cfg, failures) ==
  Min(8, cfg.decayFactor + failures - 1)
DecayRate(cfg, failures) == Min(8, cfg.decayFactor + failures)

\* consecutiveSuccesses >= successThreshold && currentBatchSize < maxBatchSize
MayGrowBelowThreshold(bm, cfg, succ) ==
  bm.currentBatchSize < cfg.maxBatchSize
MayGrow(bm, cfg, succ) ==
  succ >= cfg.successThreshold /\ bm.currentBatchSize < cfg.maxBatchSize

\* BatchManager.adjustBatchSize(success, contextOverflow)
AdjustBatchSize(bm, cfg, success, contextOverflow) ==
  IF contextOverflow
  THEN [bm EXCEPT !.contextOverflowCount = Bump(@),
                  !.consecutiveFailures = Bump(@),
                  !.consecutiveSuccesses = 0,
                  !.currentBatchSize = DecaySize(@, cfg, cfg.decayFactor)]
  ELSE IF success
  THEN LET succ == Bump(bm.consecutiveSuccesses)
           newSize == GrowSize(bm.currentBatchSize, cfg)
           grows == /\ MayGrow(bm, cfg, succ)
                    /\ newSize > bm.currentBatchSize
       IN [bm EXCEPT !.consecutiveFailures = 0,
                     !.consecutiveSuccesses = IF grows THEN 0 ELSE succ,
                     !.currentBatchSize = IF grows THEN newSize ELSE @]
  ELSE LET fails == Bump(bm.consecutiveFailures)
       IN [bm EXCEPT !.consecutiveFailures = fails,
                     !.consecutiveSuccesses = 0,
                     !.currentBatchSize = DecaySize(@, cfg, DecayRate(cfg, fails))]


\* ------------------------------------------------------------------------
\* Prompt size  (createClassificationPrompt 654-687, estimateTokensAccurately
\* 166-176).  A commit is [hash, msgLen, diffLen]: its identity and the
\* lengths of its message and diff.  The classification model name is not a
\* tiktoken model, so encoding_for_model throws and the length heuristic
\* Math.ceil(text.length / 3.5) is the estimate.
\* ------------------------------------------------------------------------
HashLen == 7
PromptFixedLen == 563
CommitFixedLen == 35
DiffTruncation == 800
EllipsisLen == 3

\* one "n. Hash: .. Message: .. Diff: .." entry, diff cut to 800 characters
CommitPromptLen(c) ==
  CommitFixedLen + HashLen + c.msgLen + Min(c.diffLen, DiffTruncation)
    + (IF c.diffLen >= DiffTruncation THEN EllipsisLen ELSE 0)

RECURSIVE SumCommitLen(_)
SumCommitLen(b) ==
  IF b = << >> THEN 0 ELSE CommitPromptLen(Head(b)) + SumCommitLen(Tail(b))

\* header + entries joined by "\n" + footer
PromptLength(b) ==
  PromptFixedLen + SumCommitLen(b) + (IF Len(b) > 0 THEN Len(b) - 1 ELSE 0)

\* Math.ceil(length / 3.5)
EstimateTokens(length) == (2 * length + 6) \div 7

\* commits.slice(i, i + batchSize), i counted from 0
Slice(s, from, size) ==
  SubSeq(s, from + 1, Min(Len(s), from + size))

\* ------------------------------------------------------------------------
\* RateLimitManager  (commit-analyzer.ts 484-572)
\* ------------------------------------------------------------------------
MinuteWindowMs == 60000
DayWindowMs == 86400000
FreeMinuteLimit == 20
WaitBufferMs == 1000
CreditThreshold == 10
HighCreditDailyLimit == 1000
LowCreditDailyLimit == 50
\* creditsRemaining: null
Null == -1

\* rateLimitInfo of a new RateLimitManager at time t
NewRateLimitInfo(t) ==
  [requestsThisMinute |-> 0, minuteStartTime |-> t,
   dailyRequests |-> 0, dayStartTime |-> t,
   creditsRemaining |-> Null, isFreeTier |-> TRUE]

\* creditsRemaining && creditsRemaining >= 10 ? 1000 : 50
DailyLimit(info) ==
  IF info.creditsRemaining # Null /\ info.creditsRemaining >= CreditThreshold
  THEN HighCreditDailyLimit ELSE LowCreditDailyLimit

\* the two window resets at the head of checkRateLimits
RollWindowsEager(info, t) ==
  LET m == IF t - info.minuteStartTime > 0
           THEN [info EXCEPT !.requestsThisMinute = 0, !.minuteStartTime = t]
           ELSE info
  IN IF t - m.dayStartTime >= DayWindowMs
     THEN [m EXCEPT !.dailyRequests = 0, !.dayStartTime = t]
     ELSE m
RollWindows(info, t) ==
  LET m == IF t - info.minuteStartTime >= MinuteWindowMs
           THEN [info EXCEPT !.requestsThisMinute = 0, !.minuteStartTime = t]
           ELSE info
  IN IF t - m.dayStartTime >= DayWindowMs
     THEN [m EXCEPT !.dailyRequests = 0, !.dayStartTime = t]
     ELSE m

\* sleep(waitTime + 1000)
MinuteWaitNoBuffer(info, t) == MinuteWindowMs - (t - info.minuteStartTime)
MinuteWait(info, t) == MinuteWindowMs - (t - info.minuteStartTime) + WaitBufferMs

\* RateLimitManager.checkRateLimits() called at time t.  The result gives the
\* new rateLimitInfo, the time at which the call ends, the time slept and
\* whether the daily-limit error was thrown.
CheckRateLimits(info, t) ==
  LET rolled == RollWindows(info, t)
      mustWait == rolled.isFreeTier /\ rolled.requestsThisMinute >= FreeMinuteLimit
      slept == IF mustWait THEN MinuteWait(rolled, t) ELSE 0
      after == IF mustWait
               THEN [rolled EXCEPT !.requestsThisMinute = 0,
                                   !.minuteStartTime = t + slept]
               ELSE rolled
  IN [info |-> after,
      now |-> t + slept,
      slept |-> slept,
      counted |-> rolled.requestsThisMinute,
      elapsed |-> t - rolled.minuteStartTime,
      threw |-> after.isFreeTier /\ after.dailyRequests >= DailyLimit(after)]

\* RateLimitManager.recordRequest()
RecordRequest(info) ==
  [info EXCEPT !.requestsThisMinute = @ + 1, !.dailyRequests = @ + 1]

\* answers of GET /auth/key: the call fails, or reports credits and tier
FailedKeyInfo == [ok |-> FALSE, credits |-> 0, isFreeTier |-> TRUE]
PaidKeyInfo == [ok |-> TRUE, credits |-> CreditThreshold, isFreeTier |-> FALSE]
KeyInfoAnswers ==
  {FailedKeyInfo} \cup
  {[ok |-> TRUE, credits |-> c, isFreeTier |-> f] :
      c \in {0, CreditThreshold}, f \in BOOLEAN}

\* RateLimitManager.updateApiKeyInfo()
UpdateApiKeyInfoAssumePaid(info, answer) ==
  IF answer.ok
  THEN [info EXCEPT !.creditsRemaining = answer.credits,
                    !.isFreeTier = answer.isFreeTier]
  ELSE [info EXCEPT !.isFreeTier = FALSE]
UpdateApiKeyInfo(info, answer) ==
  IF answer.ok
  THEN [info EXCEPT !.creditsRemaining = answer.credits,
                    !.isFreeTier = answer.isFreeTier]
  ELSE info

\* ------------------------------------------------------------------------
\* callLLMWithRetry  (commit-analyzer.ts 578-652)
\* ------------------------------------------------------------------------
\* What one network attempt meets: a usable answer ("ok"), an answer that
\* covers only part of the batch ("partial"), an answer that is not JSON
\* ("garbled"), HTTP 429, 402 or 500, or a network error thrown by fetch.
Answers == {"ok", "partial", "garbled"}
Failures == {"429", "402", "500", "network"}
Outcomes == Answers \cup Failures
Retryable == {"429", "500", "network"}

RECURSIVE Pow2(_)
Pow2(k) == IF k = 0 THEN 1 ELSE 2 * Pow2(k - 1)

\* config.baseDelay * Math.pow(2, retryCount)
BackoffDelay(cfg, retryCount) == cfg.baseDelay * Pow2(retryCount)

\* retryCount < config.maxRetries, the test of both retry branches (615, 641)
RetryOnceMore(cfg, retryCount) == retryCount <= cfg.maxRetries
MayRetry(cfg, retryCount) == retryCount < cfg.maxRetries

\* one call of callLLMWithRetry from classifyCommitsBatch: the recursion depth
\* retryCount, the attempts sent and backoff sleeps made so far, the outcome
\* of the last attempt, whether a 402 was met, and how the call ended
IdleCall ==
  [status |-> "idle", retryCount |-> 0, attempts |-> 0, backoffs |-> << >>,
   last |-> "none", sawCredit |-> FALSE, error |-> "none", answer |-> "none"]

\* ------------------------------------------------------------------------
\* classifyCommitsBatch  (commit-analyzer.ts 689-750)
\* ------------------------------------------------------------------------
\* the entries returned for a batch: every commit of the batch, with the
\* classification fields when the answer holds an entry for its hash
Unclassified(b) ==
  [k \in 1..Len(b) |-> [hash |-> b[k].hash, classified |-> FALSE]]

\* commits.map over the parsed answer (725-743); a partial answer holds
\* entries for the commits at odd positions only
Classified(b, answer) ==
  [k \in 1..Len(b) |->
     [hash |-> b[k].hash, classified |-> (answer = "ok" \/ k % 2 = 1)]]

DropFailedBatch(b, cl) ==
  IF cl.status = "returned"
  THEN IF cl.answer \in {"ok", "partial"}
       THEN Classified(b, cl.answer) ELSE Unclassified(b)
  ELSE << >>
ClassifyResult(b, cl) ==
  IF cl.status = "returned" /\ cl.answer \in {"ok", "partial"}
  THEN Classified(b, cl.answer)
  ELSE Unclassified(b)

VARIABLES config, batchManager, commits, i, batchNumber, classifiedCommits,
          batch, batchSize, pc, rateLimitInfo, now, call, remote, keyAnswer,
          ticksLeft, lastAcquire, windowSent, quotaBatch, failedHashes,
          iteration

pipelineVars == <<commits, i, batchNumber, classifiedCommits, batch, batchSize,
                  pc, rateLimitInfo, now, call, remote, keyAnswer, ticksLeft,
                  lastAcquire, windowSent, quotaBatch, failedHashes,
                  iteration>>

\* ConcurrencyLimiter (running, queue, limit), the promises of the tasks
\* handed to it and the result of enrichCommitsWithDiffs
VARIABLES limit, running, queue, tasks, settledOrder, enrichedCommits

limiterVars == <<limit, running, queue, tasks, settledOrder, enrichedCommits>>

\* CacheService: the GcaCache held in memory, the cache file and its backup,
\* the repository HEAD, the position inside saveCache, the answer of the
\* last validateCache and the last canResumeFromPhase call
VARIABLES cache, cacheFile, backupFile, repoHead, savePc, validation, runs,
          resume

cacheVars == <<cache, cacheFile, backupFile, repoHead, savePc, validation,
               runs, resume>>

serviceVars == <<limiterVars, cacheVars>>

vars == <<config, batchManager, pipelineVars, serviceVars>>

\* what the last checkRateLimits call did
NoAcquire == [slept |-> 0, counted |-> 0, elapsed |-> 0, threw |-> FALSE,
              daily |-> 0, sent |-> 0, endedAt |-> 0]

\* the promise of Promise.all before it settles
PendingAll == [state |-> "pending", value |-> << >>]

\* no ConcurrencyLimiter has been constructed
IdleLimiter ==
  /\ limit = 0 /\ running = 0 /\ queue = << >> /\ tasks = << >>
  /\ settledOrder = << >> /\ enrichedCommits = PendingAll

\* loadCache's null, and a path at which no file exists
NoCache == [null |-> TRUE]
NoFile == [exists |-> FALSE]

\* canResumeFromPhase has not been called
NoResume == [asked |-> FALSE, current |-> "none", target |-> "none",
             answer |-> FALSE]

\* no CacheService call has been made and no cache file exists
IdleCache ==
  /\ cache = NoCache /\ cacheFile = NoFile /\ backupFile = NoFile
  /\ repoHead = "head-1" /\ savePc = "idle" /\ validation = "none" /\ runs = 1
  /\ resume = NoResume

\* the classification loop has not been entered
IdlePipeline ==
  /\ i = 0 /\ batchNumber = 1 /\ classifiedCommits = << >>
  /\ batch = << >> /\ batchSize = 0 /\ pc = "idle"
  /\ rateLimitInfo = NewRateLimitInfo(0) /\ call = IdleCall
  /\ remote = "any" /\ keyAnswer = FailedKeyInfo
  /\ ticksLeft = 0 /\ lastAcquire = NoAcquire
  /\ windowSent = 0 /\ quotaBatch = 0 /\ failedHashes = {}
  /\ iteration = 0


\* ------------------------------------------------------------------------
\* The batch controller on its own, driven by arbitrary outcomes
\* ------------------------------------------------------------------------
InitBatch ==
  /\ config \in { cfg \in BatchConfigs : validBatchConfig(cfg) }
  /\ batchManager = NewBatchManager(config)
  /\ commits = << >> /\ i = 0 /\ batchNumber = 1 /\ classifiedCommits = << >>
  /\ batch = << >> /\ batchSize = 0 /\ pc = "controller"
  /\ rateLimitInfo = NewRateLimitInfo(0) /\ now = 0 /\ call = IdleCall
  /\ remote = "any" /\ keyAnswer = FailedKeyInfo
  /\ ticksLeft = 0 /\ lastAcquire = NoAcquire
  /\ windowSent = 0 /\ quotaBatch = 0 /\ failedHashes = {}
  /\ iteration = 0
  /\ IdleLimiter /\ IdleCache

AdjustSuccess ==
  /\ batchManager' = AdjustBatchSize(batchManager, config, TRUE, FALSE)
  /\ UNCHANGED <<serviceVars, config, pipelineVars>>

AdjustFailure ==
  /\ batchManager' = AdjustBatchSize(batchManager, config, FALSE, FALSE)
  /\ UNCHANGED <<serviceVars, config, pipelineVars>>

AdjustOverflow ==
  /\ \E success \in BOOLEAN :
       batchManager' = AdjustBatchSize(batchManager, config, success, TRUE)
  /\ UNCHANGED <<serviceVars, config, pipelineVars>>

NextBatch == AdjustSuccess \/ AdjustFailure \/ AdjustOverflow

SpecBatch == InitBatch /\ [][NextBatch]_vars

\* C1: for every valid configuration, after any sequence of adjustBatchSize
\* calls (success, failure, context overflow in any mix) the current batch
\* size stays within minBatchSize .. maxBatchSize.
BatchSizeWithinBounds ==
  /\ config.minBatchSize <= batchManager.currentBatchSize
  /\ batchManager.currentBatchSize <= config.maxBatchSize

\* C1 witness: the size has grown to the maximum and decayed again after
\* an overflow, on a configuration with room between the two limits.
BatchSizeMovedBothWays ==
  /\ config.minBatchSize < config.initialBatchSize
  /\ config.initialBatchSize < config.maxBatchSize
  /\ batchManager.contextOverflowCount > 0
  /\ batchManager.currentBatchSize = config.maxBatchSize
\* ------------------------------------------------------------------------
\* processCommitsInAdaptiveBatches  (commit-analyzer.ts 899-989)
\* ------------------------------------------------------------------------
BatchPauseMs == 300
TruncatedDiffLen == 200
SmallContextLimit == 420

\* kinds of commit: a short one, one with a long diff (cut to 800 characters
\* in the prompt) and one with a very long message (never cut)
Light == [msgLen |-> 20, diffLen |-> 100]
Heavy == [msgLen |-> 20, diffLen |-> 2000]
Huge == [msgLen |-> 5000, diffLen |-> 2000]
CommitKinds == {Light, Heavy, Huge}

\* the enriched commits handed to the loop; the hash is the position
CommitLists(kinds, lens) ==
  UNION { { [k \in 1..n |-> [hash |-> k, msgLen |-> f[k].msgLen,
                             diffLen |-> f[k].diffLen]] :
              f \in [1..n -> kinds] } : n \in lens }

SmallConfigs ==
  { [minBatchSize |-> mn, initialBatchSize |-> ini, maxBatchSize |-> 4,
     growthFactor |-> 15, decayFactor |-> 6, successThreshold |-> 2,
     maxRetries |-> r, baseDelay |-> DefaultBaseDelay,
     contextLimitThreshold |-> SmallContextLimit] :
       mn \in 1..2, ini \in {2}, r \in {0, 1} }

LongConfig ==
  [minBatchSize |-> 1, initialBatchSize |-> 1, maxBatchSize |-> 1,
   growthFactor |-> 15, decayFactor |-> 6, successThreshold |-> 2,
   maxRetries |-> DefaultMaxRetries, baseDelay |-> DefaultBaseDelay,
   contextLimitThreshold |-> DefaultContextLimit]

\* state at entry of processCommitsInAdaptiveBatches (903-905, 914-915)
InitRun(cfg, list, rem, key, ticks) ==
  /\ config = cfg
  /\ keyAnswer = key
  /\ commits = list
  /\ remote = rem
  /\ ticksLeft = ticks
  /\ batchManager = NewBatchManager(cfg)
  /\ now = 0
  /\ rateLimitInfo = NewRateLimitInfo(0)
  /\ classifiedCommits = << >>
  /\ i = 0 /\ batchNumber = 1
  /\ batch = << >> /\ batchSize = 0
  /\ call = IdleCall
  /\ pc = "start"
  /\ lastAcquire = NoAcquire /\ windowSent = 0
  /\ quotaBatch = 0 /\ failedHashes = {}
  /\ iteration = 0
  /\ IdleLimiter /\ IdleCache

\* short lists of every kind of commit against a remote that may answer
\* anything
InitSmall ==
  \E cfg \in SmallConfigs, list \in CommitLists(CommitKinds, 1..MaxCommits),
     key \in {FailedKeyInfo, PaidKeyInfo} :
     InitRun(cfg, list, "any", key, 0)

\* a long list of short commits, one per batch, against a remote that always
\* fails the same way
InitLong ==
  \E rem \in {"429", "network"}, key \in KeyInfoAnswers :
     \E list \in CommitLists({Light}, {LongRun}) :
        InitRun(LongConfig, list, rem, key, MaxTicks)

Init == InitSmall \/ InitLong

\* await rateLimitManager.updateApiKeyInfo()  (908)
RefreshKeyInfo ==
  /\ pc = "start"
  /\ rateLimitInfo' = UpdateApiKeyInfo(rateLimitInfo, keyAnswer)
  /\ pc' = "loop"
  /\ UNCHANGED <<serviceVars, config, batchManager, commits, i, batchNumber,
                 classifiedCommits, batch, batchSize, now, call, remote,
                 keyAnswer, ticksLeft, lastAcquire, windowSent, quotaBatch, failedHashes>>
  /\ UNCHANGED iteration

\* `iteration` is the parity of the number of passes through the loop head,
\* which makes a pass that changes nothing else a step of its own.

\* estimatedTokens > config.contextLimitThreshold  (927-930)
Overflows(b) == EstimateTokens(PromptLength(b)) > config.contextLimitThreshold

\* batch.map(c => ({...c, diff: c.diff.substring(0, 200)}))  (940-943)
Truncated(b) ==
  [k \in 1..Len(b) |-> [b[k] EXCEPT !.diffLen = Min(@, TruncatedDiffLen)]]

StartCall == [IdleCall EXCEPT !.status = "running"]

\* i += batch.length  (946, 958)
AdvanceByRequested(cursor, b, requested) == cursor + requested
Advance(cursor, b, requested) == cursor + Len(b)

\* loop head, no overflow: the batch goes to classifyCommitsBatch  (918-952)
SendBatch ==
  /\ pc = "loop" /\ i < Len(commits)
  /\ LET b == Slice(commits, i, batchManager.currentBatchSize)
     IN /\ ~Overflows(b)
        /\ batch' = b
        /\ batchSize' = batchManager.currentBatchSize
  /\ call' = StartCall
  /\ pc' = "classifying"
  /\ UNCHANGED <<serviceVars, config, batchManager, commits, i, batchNumber,
                 classifiedCommits, rateLimitInfo, now, remote, keyAnswer, ticksLeft,
                 lastAcquire, windowSent, quotaBatch, failedHashes>>
  /\ iteration' = 1 - iteration

\* loop head, overflow: shrink and retry without moving the cursor (930-949)
OverflowRetry ==
  /\ pc = "loop" /\ i < Len(commits)
  /\ LET b == Slice(commits, i, batchManager.currentBatchSize)
         adjusted == AdjustBatchSize(batchManager, config, FALSE, TRUE)
     IN /\ Overflows(b)
        /\ ~(adjusted.currentBatchSize = config.minBatchSize /\ Len(b) = 1)
        /\ batch' = b
        /\ batchSize' = batchManager.currentBatchSize
        /\ batchManager' = adjusted
  /\ UNCHANGED <<serviceVars, config, commits, i, batchNumber, classifiedCommits, pc,
                 rateLimitInfo, now, call, remote, keyAnswer, ticksLeft, lastAcquire,
                 windowSent, quotaBatch, failedHashes>>
  /\ iteration' = 1 - iteration

\* loop head, overflow of a single commit at the minimum size: it is sent
\* with its diff cut to 200 characters  (935-944)
OverflowSingle ==
  /\ pc = "loop" /\ i < Len(commits)
  /\ LET b == Slice(commits, i, batchManager.currentBatchSize)
         adjusted == AdjustBatchSize(batchManager, config, FALSE, TRUE)
     IN /\ Overflows(b)
        /\ adjusted.currentBatchSize = config.minBatchSize /\ Len(b) = 1
        /\ batch' = Truncated(b)
        /\ batchSize' = batchManager.currentBatchSize
        /\ batchManager' = adjusted
  /\ call' = StartCall
  /\ pc' = "truncated"
  /\ UNCHANGED <<serviceVars, config, commits, i, batchNumber, classifiedCommits,
                 rateLimitInfo, now, remote, keyAnswer, ticksLeft, lastAcquire,
                 windowSent, quotaBatch, failedHashes>>
  /\ iteration' = 1 - iteration

\* One activation of callLLMWithRetry (578-652): checkRateLimits, then the
\* fetch, recordRequest when fetch returned a response, and the handling of
\* the response, the backoff sleep included.  fetch takes `latency`.
Attempt ==
  /\ pc \in {"classifying", "truncated"}
  /\ call.status = "running"
  /\ \E outcome \in (IF remote = "any" THEN Outcomes ELSE {remote}),
        latency \in {0} \cup (IF ticksLeft > 0
                              THEN {MinuteWindowMs, DayWindowMs} ELSE {}) :
       LET acq == CheckRateLimits(rateLimitInfo, now)
           fresh == acq.info.minuteStartTime # rateLimitInfo.minuteStartTime
           sentBefore == IF fresh THEN 0 ELSE windowSent
           retry == outcome \in Failures /\ MayRetry(config, call.retryCount)
           delay == BackoffDelay(config, call.retryCount)
           tried == [call EXCEPT !.attempts = @ + 1,
                                 !.last = outcome,
                                 !.sawCredit = @ \/ outcome = "402"]
       IN /\ lastAcquire' = [slept |-> acq.slept, counted |-> acq.counted,
                             elapsed |-> acq.elapsed, threw |-> acq.threw,
                             daily |-> acq.info.dailyRequests,
                             sent |-> IF RollWindows(rateLimitInfo, now).minuteStartTime
                                         # rateLimitInfo.minuteStartTime
                                      THEN 0 ELSE windowSent,
                             endedAt |-> acq.now]
          /\ IF acq.threw
             THEN /\ latency = 0
                  /\ rateLimitInfo' = acq.info
                  /\ now' = acq.now
                  /\ windowSent' = sentBefore
                  /\ call' = [call EXCEPT !.status = "threw", !.error = "quota"]
                  /\ quotaBatch' = IF quotaBatch = 0 THEN batchNumber
                                   ELSE quotaBatch
                  /\ UNCHANGED ticksLeft
             ELSE /\ rateLimitInfo' = IF outcome = "network" THEN acq.info
                                      ELSE RecordRequest(acq.info)
                  /\ windowSent' = sentBefore + 1
                  /\ now' = acq.now + latency + (IF retry THEN delay ELSE 0)
                  /\ ticksLeft' = IF latency > 0 THEN ticksLeft - 1 ELSE ticksLeft
                  /\ call' = IF outcome \in Answers
                             THEN [tried EXCEPT !.status = "returned",
                                                !.answer = outcome]
                             ELSE IF retry
                             THEN [tried EXCEPT !.retryCount = @ + 1,
                                                !.backoffs = Append(@, delay)]
                             ELSE [tried EXCEPT !.status = "threw",
                                                !.error = outcome]
                  /\ UNCHANGED quotaBatch
  /\ UNCHANGED <<serviceVars, config, batchManager, commits, i, batchNumber,
                 classifiedCommits, batch, batchSize, pc, remote, keyAnswer,
                 failedHashes>>
  /\ UNCHANGED iteration

Hashes(b) == { b[k].hash : k \in 1..Len(b) }

\* classifyCommitsBatch has returned on the normal path: push the entries,
\* adjustBatchSize(true), advance the cursor, pause  (952-966)
FinishBatch ==
  /\ pc = "classifying"
  /\ call.status \in {"returned", "threw"}
  /\ classifiedCommits' = classifiedCommits \o ClassifyResult(batch, call)
  /\ batchManager' = AdjustBatchSize(batchManager, config, TRUE, FALSE)
  /\ i' = Advance(i, batch, batchSize)
  /\ batchNumber' = batchNumber + 1
  /\ now' = now + (IF i' < Len(commits) THEN BatchPauseMs ELSE 0)
  /\ failedHashes' = IF call.status = "threw"
                     THEN failedHashes \cup Hashes(batch) ELSE failedHashes
  /\ call' = IdleCall
  /\ pc' = "loop"
  /\ UNCHANGED <<serviceVars, config, commits, batch, batchSize, rateLimitInfo, remote,
                 keyAnswer, ticksLeft, lastAcquire, windowSent, quotaBatch>>
  /\ UNCHANGED iteration

\* classifyCommitsBatch has returned on the single-commit overflow path
\* (944-949)
FinishTruncated ==
  /\ pc = "truncated"
  /\ call.status \in {"returned", "threw"}
  /\ classifiedCommits' = classifiedCommits \o ClassifyResult(batch, call)
  /\ i' = Advance(i, batch, batchSize)
  /\ batchNumber' = batchNumber + 1
  /\ failedHashes' = IF call.status = "threw"
                     THEN failedHashes \cup Hashes(batch) ELSE failedHashes
  /\ call' = IdleCall
  /\ pc' = "loop"
  /\ UNCHANGED <<serviceVars, config, batchManager, commits, batch, batchSize,
                 rateLimitInfo, now, remote, keyAnswer, ticksLeft, lastAcquire,
                 windowSent, quotaBatch>>
  /\ UNCHANGED iteration

\* while (i < commits.length) is false: return classifiedCommits  (917, 988)
Return ==
  /\ pc = "loop" /\ i >= Len(commits)
  /\ pc' = "done"
  /\ UNCHANGED <<serviceVars, config, batchManager, commits, i, batchNumber,
                 classifiedCommits, batch, batchSize, rateLimitInfo, now,
                 call, remote, keyAnswer, ticksLeft, lastAcquire, windowSent,
                 quotaBatch, failedHashes>>
  /\ UNCHANGED iteration

\* The catch block of the loop (967-980) is not an action: nothing in the
\* try block throws, classifyCommitsBatch catching every error of the call.
Next ==
  \/ RefreshKeyInfo
  \/ SendBatch
  \/ OverflowRetry
  \/ OverflowSingle
  \/ Attempt
  \/ FinishBatch
  \/ FinishTruncated
  \/ Return

Spec == Init /\ [][Next]_vars

\* the loop keeps running as long as it can take a step
FairSpec == InitSmall /\ [][Next]_vars /\ WF_vars(Next)

\* ------------------------------------------------------------------------
\* The loop on fifty commits under the default batch settings of
\* loadAndValidateConfig (119-127): initial 16, min 2, max 128, growth 1.5,
\* decay 0.6, threshold 2
\* ------------------------------------------------------------------------
ScenarioItems == 50
ScenarioInitial == 16
\* the commits of the first two batches
ScenarioHead == 2 * ScenarioInitial

ScenarioConfigs ==
  { [minBatchSize |-> 2, initialBatchSize |-> ScenarioInitial,
     maxBatchSize |-> 128,
     growthFactor |-> 15, decayFactor |-> 6, successThreshold |-> 2,
     maxRetries |-> DefaultMaxRetries, baseDelay |-> DefaultBaseDelay,
     contextLimitThreshold |-> cl] :
       cl \in {DefaultContextLimit, SmallContextLimit} }

\* short commits first, then commits of one kind, then a last commit
ScenarioLists ==
  { [k \in 1..ScenarioItems |->
       LET kind == IF k <= ScenarioHead THEN Light
                   ELSE IF k < ScenarioItems THEN tail ELSE last
       IN [hash |-> k, msgLen |-> kind.msgLen, diffLen |-> kind.diffLen]] :
         tail \in CommitKinds, last \in CommitKinds }

\* the remote answers every call, or fails every call with HTTP 500
InitScenario ==
  \E cfg \in ScenarioConfigs, list \in ScenarioLists,
     rem \in {"ok", "500"}, key \in {FailedKeyInfo, PaidKeyInfo} :
     InitRun(cfg, list, rem, key, 0)

SpecScenario == InitScenario /\ [][Next]_vars

\* ------------------------------------------------------------------------
\* The rate limiter over long runs: the long lists of InitLong, and pairs of
\* commits of every kind against a remote that may answer anything
\* ------------------------------------------------------------------------
InitPair ==
  \E cfg \in SmallConfigs, list \in CommitLists(CommitKinds, {2}),
     key \in KeyInfoAnswers :
     InitRun(cfg, list, "any", key, 0)

InitRate == InitLong \/ InitPair

SpecRate == InitRate /\ [][Next]_vars

\* ------------------------------------------------------------------------
\* Properties
\* ------------------------------------------------------------------------

\* C2: for every finite list and valid configuration the classification
\* loop eventually finishes: the cursor reaches the end of the list.
LoopTerminates == <>(pc = "done")

\* C3: when processCommitsInAdaptiveBatches returns, the output holds exactly
\* one entry per input commit, in input order, and the commits of a batch
\* whose remote call failed after retries are there without classification.
OutputCoversInput ==
  pc = "done" =>
    /\ Len(classifiedCommits) = Len(commits)
    /\ \A k \in 1..Len(commits) :
         /\ classifiedCommits[k].hash = commits[k].hash
         /\ commits[k].hash \in failedHashes => ~classifiedCommits[k].classified

\* C3 witness: a finished run of several commits in which one batch failed
\* after retries and another was classified.
ReturnedWithFailedBatch ==
  /\ pc = "done"
  /\ Len(commits) >= 2
  /\ failedHashes # {}
  /\ \E k \in 1..Len(classifiedCommits) : classifiedCommits[k].classified

\* C4: whenever the cursor moves it moves by the length of the batch just
\* sent, so it never passes the end of the list; an overflow that is retried
\* with a smaller batch leaves the cursor where it was.
CursorAdvancesByBatchLength ==
  [][ /\ i' <= Len(commits)
      /\ i' # i => (i' = i + Len(batch) /\ Len(batch) > 0)
      /\ (pc = "loop" /\ pc' = "loop" /\ batchManager' # batchManager) => i' = i
    ]_vars

\* C4 witness: the cursor has reached the end of the list after a batch that
\* was shorter than the requested batch size.
CursorAtEndAfterShortBatch ==
  /\ pc = "loop"
  /\ i = Len(commits)
  /\ batch # << >>
  /\ Len(batch) < batchSize

\* C5: an HTTP 402 answer makes callLLMWithRetry fail at once, with no
\* further attempt and no backoff sleep, whatever retryCount and maxRetries.
CreditFailureFailsAtOnce ==
  call.last = "402" => (call.status = "threw" /\ call.error = "402")

QuotaFailsWithoutSleeping ==
  (rateLimitInfo.isFreeTier /\ lastAcquire.daily >= DailyLimit(rateLimitInfo)) =>
     (lastAcquire.threw /\ lastAcquire.slept = 0)

\* C8: a daily-quota failure raised while classifying a batch ends the run:
\* it leaves the loop as a quota failure and no later batch is attempted.
QuotaIsFatal ==
  quotaBatch # 0 =>
    /\ batchNumber = quotaBatch
    /\ pc \in {"classifying", "truncated", "aborted"}

\* C9: within one per-minute window no more than the per-minute limit of
\* network attempts are let through, whether they succeed or fail.
WindowWithinLimit ==
  rateLimitInfo.isFreeTier => windowSent <= FreeMinuteLimit

CheckpointFollowsCursor ==
  (pc = "loop" /\ i > 0) =>
    /\ cacheFile # NoFile
    /\ cacheFile.content.progress.phase = "classifying"
    /\ cacheFile.content.progress.processedCommits = i

\* C20: adjustBatchSize increases the batch size only in a success
\* transition that brings consecutiveSuccesses to successThreshold or more,
\* and every transition that increases the size leaves consecutiveSuccesses
\* at 0.
GrowthOnlyAtThreshold ==
  [][ batchManager'.currentBatchSize > batchManager.currentBatchSize =>
        /\ batchManager' = AdjustBatchSize(batchManager, config, TRUE, FALSE)
        /\ Bump(batchManager.consecutiveSuccesses) >= config.successThreshold
        /\ batchManager'.consecutiveSuccesses = 0 ]_vars

\* C20 witness: with a threshold of two the size has grown beyond the
\* initial size and the success counter is back at 0.
GrewAfterThreshold ==
  /\ config.successThreshold = 2
  /\ batchManager.currentBatchSize > config.initialBatchSize
  /\ batchManager.consecutiveSuccesses = 0
  /\ batchManager.consecutiveFailures = 0
  /\ batchManager.contextOverflowCount = 0

\* C21: every context-overflow transition makes the batch size strictly
\* smaller when it was above minBatchSize and leaves it at minBatchSize
\* otherwise, whichever success flag comes with the overflow signal.
OverflowAlwaysShrinks ==
  [][ AdjustOverflow =>
        /\ \A success \in BOOLEAN :
             batchManager' = AdjustBatchSize(batchManager, config, success, TRUE)
        /\ IF batchManager.currentBatchSize > config.minBatchSize
           THEN /\ batchManager'.currentBatchSize < batchManager.currentBatchSize
                /\ batchManager'.currentBatchSize >= config.minBatchSize
           ELSE batchManager'.currentBatchSize = config.minBatchSize ]_vars

\* C21 witness: overflows have brought the size from above the minimum down
\* to the minimum, and a further overflow has left it there.
OverflowedDownToMin ==
  /\ config.initialBatchSize > config.minBatchSize + 1
  /\ config.decayFactor = 9
  /\ batchManager.currentBatchSize = config.minBatchSize
  /\ batchManager.contextOverflowCount
       > config.initialBatchSize - config.minBatchSize
  /\ batchManager.consecutiveFailures = batchManager.contextOverflowCount

\* C30: a failure transition without overflow increments
\* consecutiveFailures, resets consecutiveSuccesses to 0 and sets the size to
\* max(min, floor(size * min(0.8, decayFactor + 0.1 * consecutiveFailures)))
\* with the incremented count; it never increases the size.
FailureDecaysByEscalatedRate ==
  [][ AdjustFailure =>
        LET fails == batchManager'.consecutiveFailures
            tenths == IF config.decayFactor + fails < 8
                      THEN config.decayFactor + fails ELSE 8
            floored == (batchManager.currentBatchSize * tenths) \div 10
        IN /\ fails = Bump(batchManager.consecutiveFailures)
           /\ batchManager'.consecutiveSuccesses = 0
           /\ batchManager'.currentBatchSize =
                (IF floored > config.minBatchSize
                 THEN floored ELSE config.minBatchSize)
           /\ batchManager'.currentBatchSize <= batchManager.currentBatchSize
           /\ batchManager'.contextOverflowCount
                = batchManager.contextOverflowCount ]_vars

\* C30 witness: two failures in a row, the second at the escalated rate of
\* 0.8, have brought the size down from the initial size.
ShrunkByTwoFailures ==
  /\ config.decayFactor = 6
  /\ config.initialBatchSize = 5
  /\ config.minBatchSize = 1
  /\ batchManager.consecutiveFailures = 2
  /\ batchManager.contextOverflowCount = 0
  /\ batchManager.currentBatchSize = 2

\* C22: with initial 16, min 2, max 128, growth 1.5, decay 0.6, threshold 2
\* and 50 commits, after two successful batches of 16 commits the third
\* batch is requested with size 24, and a context overflow of that batch
\* makes the size 14.
ScenarioSizes ==
  (/\ batchNumber = 3
   /\ pc = "loop"
   /\ failedHashes = {}
   /\ Len(classifiedCommits) = 2 * config.initialBatchSize) =>
     /\ i = ScenarioHead
     /\ batchManager.contextOverflowCount = 0 =>
          batchManager.currentBatchSize = 24
     /\ batchManager.contextOverflowCount = 1 =>
          (batchSize = 24 /\ batchManager.currentBatchSize = 14)

\* C22 witness: the third batch was requested with 24 commits, held the
\* 18 that were left, overflowed, and the size is 14.
ThirdBatchOverflowed ==
  /\ batchNumber = 3 /\ pc = "loop" /\ i = ScenarioHead
  /\ failedHashes = {}
  /\ batchSize = 24 /\ Len(batch) = ScenarioItems - ScenarioHead
  /\ batchManager.contextOverflowCount = 1
  /\ batchManager.currentBatchSize = 14

\* C24: for every batch sent to the remote the controller receives one
\* transition that reflects the outcome of the call: a success transition
\* when the call returned, a failure transition when it failed after its
\* retries.
OutcomeFedToController ==
  [][ FinishBatch =>
        batchManager' = AdjustBatchSize(batchManager, config,
                                        call.status = "returned", FALSE) ]_vars

\* C25: after any sequence of transitions consecutiveSuccesses is strictly
\* below successThreshold, every success transition that reaches the
\* threshold resetting it to 0.
SuccessesBelowThreshold ==
  batchManager.consecutiveSuccesses < config.successThreshold

\* C26: a context-overflow transition leaves consecutiveFailures unchanged.
OverflowKeepsFailures ==
  [][ AdjustOverflow =>
        batchManager'.consecutiveFailures = batchManager.consecutiveFailures
    ]_vars

\* C27: the per-minute counter equals the number of attempts sent since its
\* window started, an attempt counting whether it returned a response or
\* failed on the network.
CounterEqualsAttemptsSent ==
  rateLimitInfo.requestsThisMinute = windowSent

\* C28: under a clock that never goes back, minuteStartTime and dayStartTime
\* never decrease and never exceed the current time, a counter goes back to
\* 0 only when its window start moves forward by at least the window
\* length, and rolling the windows a second time at the same instant changes
\* nothing.
WindowsRollForward ==
  [][ /\ now' >= now
      /\ rateLimitInfo'.minuteStartTime <= now'
      /\ rateLimitInfo'.dayStartTime <= now'
      /\ IF rateLimitInfo'.minuteStartTime # rateLimitInfo.minuteStartTime
         THEN rateLimitInfo'.minuteStartTime - rateLimitInfo.minuteStartTime
                >= MinuteWindowMs
         ELSE rateLimitInfo'.requestsThisMinute
                >= rateLimitInfo.requestsThisMinute
      /\ IF rateLimitInfo'.dayStartTime # rateLimitInfo.dayStartTime
         THEN rateLimitInfo'.dayStartTime - rateLimitInfo.dayStartTime
                >= DayWindowMs
         ELSE rateLimitInfo'.dailyRequests >= rateLimitInfo.dailyRequests
      /\ RollWindows(RollWindows(rateLimitInfo, now), now)
           = RollWindows(rateLimitInfo, now) ]_vars

\* C28 witness: both windows have been rolled forward after a day, and the
\* per-minute window once more after that, with requests counted since.
WindowsRolledAfterADay ==
  /\ rateLimitInfo.dayStartTime >= DayWindowMs
  /\ rateLimitInfo.minuteStartTime
       >= rateLimitInfo.dayStartTime + MinuteWindowMs
  /\ rateLimitInfo.dailyRequests > FreeMinuteLimit
  /\ rateLimitInfo.requestsThisMinute > 0

MaxTasks == 3
MaxLimit == 2

\* if (this.running < this.limit)
HasSlotInclusive(r, l) == r <= l
HasSlot(r, l) == r < l

\* this.queue.shift() leaves the rest of the queue
DequeueKeep(q) == q
Dequeue(q) == Tail(q)

\* the commits handed to enrichCommitsWithDiffs
RawCommits(n) == [k \in 1..n |-> [hash |-> k]]

\* what the task of one commit can end with: the diff summary, the
\* placeholder returned when git fails, or a rejection
GitAnswers == {"diff", "unavailable", "throws"}

\* a task that has not been handed to limiter.run yet
NewTask == [state |-> "new", answer |-> "none", starts |-> 0,
            result |-> "pending", waited |-> FALSE]

\* return { ...commit, diff }
Enrich(commit, answer) ==
  [hash |-> commit.hash, diff |-> <<answer, commit.hash>>]

\* Promise.all(commits.map(..)): the value of each promise is stored at the
\* index of its promise, whatever the order in which the promises settled
CollectByCompletion(list, ts, order) ==
  [k \in 1..Len(list) |-> Enrich(list[order[k]], ts[order[k]].answer)]
Collect(list, ts, order) ==
  [k \in 1..Len(list) |-> Enrich(list[k], ts[k].answer)]

\* execute(): this.running++ and the call of fn
Execute(ts, k) ==
  [ts EXCEPT ![k].state = "running", ![k].starts = @ + 1]

InitLimiter ==
  /\ limit \in -1..MaxLimit
  /\ commits \in { RawCommits(n) : n \in 0..MaxTasks }
  /\ tasks = [k \in 1..Len(commits) |-> NewTask]
  /\ running = 0 /\ queue = << >> /\ settledOrder = << >>
  /\ enrichedCommits = PendingAll
  /\ config = LongConfig /\ batchManager = NewBatchManager(LongConfig)
  /\ now = 0
  /\ IdlePipeline /\ IdleCache

\* limiter.run(fn) for the next commit of commits.map  (415-437)
Run ==
  /\ \E k \in DOMAIN tasks :
       /\ tasks[k].state = "new"
       /\ \A j \in 1..(k - 1) : tasks[j].state # "new"
       /\ IF HasSlot(running, limit)
          THEN /\ running' = running + 1
               /\ tasks' = Execute(tasks, k)
               /\ UNCHANGED queue
          ELSE /\ queue' = Append(queue, k)
               /\ tasks' = [tasks EXCEPT ![k].state = "queued",
                                         ![k].waited = TRUE]
               /\ UNCHANGED running
  /\ UNCHANGED <<limit, settledOrder, enrichedCommits, cacheVars, config,
                 batchManager, pipelineVars>>

\* the promise of fn() settles  (420: await fn())
Settle ==
  /\ \E k \in DOMAIN tasks, answer \in GitAnswers :
       /\ tasks[k].state = "running"
       /\ tasks' = [tasks EXCEPT ![k].state = "settled", ![k].answer = answer]
  /\ UNCHANGED <<limit, running, queue, settledOrder, enrichedCommits,
                 cacheVars, config, batchManager, pipelineVars>>

\* the rest of execute() after the await: resolve or reject, then the
\* finally block  (421-431)
Release ==
  /\ \E k \in DOMAIN tasks :
       /\ tasks[k].state = "settled"
       /\ LET done == [tasks EXCEPT
                         ![k].state = "finished",
                         ![k].result = IF tasks[k].answer = "throws"
                                       THEN "rejected" ELSE "resolved"]
          IN IF Len(queue) > 0
             THEN /\ queue' = Dequeue(queue)
                  /\ tasks' = Execute(done, Head(queue))
                  /\ running' = (running - 1) + 1
             ELSE /\ tasks' = done
                  /\ running' = running - 1
                  /\ UNCHANGED queue
       /\ settledOrder' = Append(settledOrder, k)
  /\ UNCHANGED <<limit, enrichedCommits, cacheVars, config, batchManager,
                 pipelineVars>>

\* Promise.all fulfils once every promise of limiter.run is resolved
\* (454, 468)
ReturnEnriched ==
  /\ enrichedCommits.state = "pending"
  /\ \A k \in DOMAIN tasks : tasks[k].result = "resolved"
  /\ enrichedCommits' =
       [state |-> "fulfilled", value |-> Collect(commits, tasks, settledOrder)]
  /\ UNCHANGED <<limit, running, queue, tasks, settledOrder, cacheVars,
                 config, batchManager, pipelineVars>>

\* Promise.all rejects as soon as one promise of limiter.run is rejected;
\* the other tasks go on
RejectEnriched ==
  /\ enrichedCommits.state = "pending"
  /\ \E k \in DOMAIN tasks : tasks[k].result = "rejected"
  /\ enrichedCommits' = [state |-> "rejected", value |-> << >>]
  /\ UNCHANGED <<limit, running, queue, tasks, settledOrder, cacheVars,
                 config, batchManager, pipelineVars>>

NextLimiter == Run \/ Settle \/ Release \/ ReturnEnriched \/ RejectEnriched

SpecLimiter == InitLimiter /\ [][NextLimiter]_vars

\* every started task settles, and the continuation of a settled task runs
FairLimiter ==
  InitLimiter /\ [][NextLimiter]_vars /\ WF_vars(Settle) /\ WF_vars(Release)

\* the tasks the limiter counts as running
Occupying == { k \in DOMAIN tasks : tasks[k].state \in {"running", "settled"} }

\* C11: with limit >= 1, under every interleaving of submissions and
\* completions (successful or failed), the number of running tasks never
\* exceeds limit, and a task is in the queue only while exactly limit tasks
\* are running.
RunningWithinLimit ==
  limit >= 1 =>
    /\ running = Cardinality(Occupying)
    /\ running <= limit
    /\ (Len(queue) > 0 => running = limit)

\* C11 witness: a failed task has handed its slot to a task that had
\* waited, while another task is still in the queue.
SlotHandedOverAfterFailure ==
  /\ limit >= 1
  /\ Len(queue) > 0
  /\ \E a, b \in DOMAIN tasks :
       /\ tasks[a].result = "rejected"
       /\ tasks[b].waited /\ tasks[b].state = "running"

\* C12: the sequence returned by enrichCommitsWithDiffs has the length of
\* the input and its k-th element is the enrichment of the k-th input
\* commit, in whatever order the fetches completed.
EnrichedInInputOrder ==
  enrichedCommits.state = "fulfilled" =>
    /\ Len(enrichedCommits.value) = Len(commits)
    /\ \A k \in 1..Len(commits) :
         enrichedCommits.value[k] = Enrich(commits[k], tasks[k].answer)

\* C12 witness: the commits were returned after the second one completed
\* first and the first one, having got the placeholder, completed last.
ReturnedAfterReorderedCompletion ==
  /\ enrichedCommits.state = "fulfilled"
  /\ Len(commits) = MaxTasks
  /\ settledOrder[1] = 2
  /\ settledOrder[MaxTasks] = 1
  /\ tasks[1].answer = "unavailable"

\* C13: with limit >= 1 every submitted task is started exactly once, a
\* task is rejected only by its own failure, and, every started task
\* settling, every queued task is eventually started, failed predecessors
\* included.
EveryTaskStartedOnce ==
  /\ [](limit >= 1 =>
          \A k \in DOMAIN tasks :
            /\ tasks[k].starts <= 1
            /\ (tasks[k].state \in {"running", "settled", "finished"}
                  => tasks[k].starts = 1)
            /\ (tasks[k].result = "rejected" <=>
                  (tasks[k].state = "finished" /\ tasks[k].answer = "throws"))
            /\ (tasks[k].result = "resolved" <=>
                  (tasks[k].state = "finished" /\ tasks[k].answer # "throws")))
  /\ \A k \in 1..(MaxTasks + 1) :
       (limit >= 1 /\ k \in DOMAIN tasks /\ tasks[k].state = "queued")
         ~> (k \in DOMAIN tasks /\ tasks[k].starts = 1)

\* C13 witness: a task that waited behind a failing task has run to a
\* resolved result after Promise.all was rejected.
WaitedTaskRanAfterSiblingFailed ==
  /\ limit >= 1
  /\ enrichedCommits.state = "rejected"
  /\ \E a, b \in DOMAIN tasks :
       /\ tasks[a].result = "rejected"
       /\ tasks[b].waited /\ tasks[b].result = "resolved"
       /\ \E m, n \in DOMAIN settledOrder :
            m < n /\ settledOrder[m] = a /\ settledOrder[n] = b

\* C14: with limit <= 0 every task handed to the limiter is rejected (with
\* an input-validation error); none is left in the queue.
NonPositiveLimitRejected ==
  limit <= 0 =>
    \A k \in DOMAIN tasks :
      tasks[k].state # "new" => tasks[k].result = "rejected"


\* ------------------------------------------------------------------------
\* CacheService (services/CacheService.ts) and writeJsonFile
\* (utils/file.ts 31-34).  The payload arrays of cache.data and the
\* environment block are left out: no operation of the service reads them.
\* Time stamps are the milliseconds of their ISO strings.
\* ------------------------------------------------------------------------
MaxRuns == 2
MaxStored == 1
SaveChunks == 2

CACHE_VERSION == "1.0.0"
MaxAgeMs == 604800000

\* HEAD commits of the repository, and what getRepoHash returns when git
\* fails
Heads == {"head-1", "head-2"}
Unknown == "unknown"

\* phaseOrder of canResumeFromPhase
PhaseOrder == <<"fetching", "enriching", "classifying", "generating_rules",
                "applying_rules", "complete">>

\* phaseOrder.indexOf(phase), counted from 1
IndexOf(phase) == CHOOSE k \in 1..Len(PhaseOrder) : PhaseOrder[k] = phase

\* the configuration of ConfigService.loadConfig without environment
\* overrides
DefaultConfig ==
  [apiKey |-> "key-1",
   classificationModel |-> "deepseek-r1",
   ruleGenerationModel |-> "deepseek-r1",
   maxCommitsToAnalyze |-> Null,
   maxCommitsToProcess |-> Null,
   initialBatchSize |-> 16,
   minBatchSize |-> 2,
   maxBatchSize |-> 128,
   contextLimitThreshold |-> DefaultContextLimit,
   maxRetries |-> DefaultMaxRetries,
   baseDelay |-> DefaultBaseDelay,
   growthFactor |-> 15,
   decayFactor |-> 6,
   successThreshold |-> 2]

\* the settings that steer the analysis
ModelSettings == {"classificationModel", "ruleGenerationModel"}
Tunables ==
  ModelSettings \cup
  {"maxCommitsToAnalyze", "maxCommitsToProcess", "initialBatchSize",
   "minBatchSize", "maxBatchSize", "contextLimitThreshold", "maxRetries",
   "baseDelay", "growthFactor", "decayFactor", "successThreshold"}

\* the configuration with one environment variable set to another value
Override(cfg, f) ==
  [cfg EXCEPT ![f] = IF f \in ModelSettings THEN "gpt-4o"
                     ELSE IF f = "apiKey" THEN "key-2"
                     ELSE @ + 1]

CacheConfigs ==
  {DefaultConfig} \cup
  { Override(DefaultConfig, f) : f \in Tunables \cup {"apiKey"} }

\* createHash('sha256').update(text).digest('hex').substring(0, 16), taken
\* as free of collisions
Sha16(text) == <<"sha256", text>>

\* sanitizeConfig: the configuration without apiKey, with apiKeyHash
SanitizeConfig(cfg) ==
  [f \in (DOMAIN cfg \ {"apiKey"}) \cup {"apiKeyHash"} |->
     IF f = "apiKeyHash" THEN Sha16(cfg.apiKey) ELSE cfg[f]]

\* { ...cache.config, apiKey: config.apiKey }
WithApiKey(stored, apiKey) ==
  [f \in DOMAIN stored \cup {"apiKey"} |->
     IF f = "apiKey" THEN apiKey ELSE stored[f]]

\* createConfigHash
HashedSettings ==
  {"classificationModel", "ruleGenerationModel", "maxCommitsToAnalyze",
   "maxCommitsToProcess", "initialBatchSize", "contextLimitThreshold"}
CreateConfigHash(cfg) == Sha16([f \in HashedSettings |-> cfg[f]])

\* getRepoHash
GetRepoHash(head, gitOk) == IF gitOk THEN head ELSE Unknown

\* createCache
CreateCacheRecord(head, gitOk, cfg, t) ==
  [version |-> CACHE_VERSION,
   timestamp |-> t,
   repoHash |-> GetRepoHash(head, gitOk),
   config |-> SanitizeConfig(cfg),
   progress |-> [phase |-> "fetching", totalCommits |-> 0,
                 processedCommits |-> 0, startTime |-> t,
                 lastUpdateTime |-> t]]

\* updateCacheProgress; Null stands for an argument left undefined
UpdateCacheProgress(c, phase, processedCommits, totalCommits, t) ==
  [c EXCEPT !.progress.phase = phase,
            !.progress.processedCommits =
               IF processedCommits # Null THEN processedCommits ELSE @,
            !.progress.totalCommits =
               IF totalCommits # Null THEN totalCommits ELSE @,
            !.progress.lastUpdateTime = t]

\* a file of the cache directory: the record being written and how much of
\* its JSON text has reached the disk
FileOf(c, written) == [exists |-> TRUE, content |-> c, written |-> written]
FileComplete(f) == f = NoFile \/ f.written = SaveChunks

\* fs.copyFile(filePath, backupPath); nothing reads the backup, so only the
\* extent of the copy is kept
BackupOf(f) == [exists |-> TRUE, written |-> f.written]

\* loadCache: null when the file is missing, cannot be parsed or has another
\* version
LoadCacheResult(f) ==
  IF f = NoFile THEN NoCache
  ELSE IF f.written < SaveChunks THEN NoCache
  ELSE IF f.content.version # CACHE_VERSION THEN NoCache
  ELSE f.content

\* validateCache
ValidateCache(c, head, gitOk, cfg, t) ==
  IF c.repoHash # GetRepoHash(head, gitOk) THEN FALSE
  ELSE IF CreateConfigHash(cfg) #
          CreateConfigHash(WithApiKey(c.config, cfg.apiKey)) THEN FALSE
  ELSE IF t - c.timestamp > MaxAgeMs THEN FALSE
  ELSE TRUE

\* the first run in a directory without a cache file
InitCache ==
  /\ config = DefaultConfig
  /\ batchManager = NewBatchManager(DefaultConfig)
  /\ commits \in { RawCommits(n) : n \in 1..MaxStored }
  /\ now = 0
  /\ cache = NoCache
  /\ cacheFile = NoFile
  /\ backupFile = NoFile
  /\ repoHead = "head-1" /\ savePc = "idle" /\ validation = "none"
  /\ runs = 1 /\ resume = NoResume
  /\ IdlePipeline /\ IdleLimiter

\* what the cache operations leave alone
otherVars == <<limiterVars, batchManager, i, batchNumber, classifiedCommits,
               batch, batchSize, pc, rateLimitInfo, call, remote, keyAnswer,
               ticksLeft, lastAcquire, windowSent, quotaBatch, failedHashes,
               iteration, commits, resume>>

\* createCache(repoPath, config)  (143-171)
CreateCache ==
  /\ savePc = "idle"
  /\ \E gitOk \in BOOLEAN :
       cache' = CreateCacheRecord(repoHead, gitOk, config, now)
  /\ validation' = "none"
  /\ UNCHANGED <<cacheFile, backupFile, repoHead, savePc, runs, config, now,
                 otherVars>>

\* loadCache(cachePath)  (35-65)
LoadCache ==
  /\ savePc = "idle"
  /\ cache' = LoadCacheResult(cacheFile)
  /\ validation' = "none"
  /\ UNCHANGED <<cacheFile, backupFile, repoHead, savePc, runs, config, now,
                 otherVars>>

\* validateCache(cache, repoPath, config)  (104-138)
Validate ==
  /\ savePc = "idle" /\ cache # NoCache
  /\ \E gitOk \in BOOLEAN :
       validation' = IF ValidateCache(cache, repoHead, gitOk, config, now)
                     THEN "accepted" ELSE "rejected"
  /\ UNCHANGED <<cache, cacheFile, backupFile, repoHead, savePc, runs, config,
                 now, otherVars>>

\* a store* or updateCacheProgress call changes the record in memory only;
\* the commits of the run are the list every store* call is handed
Progress(phase, processedCommits, totalCommits) ==
  /\ savePc = "idle" /\ cache # NoCache
  /\ cache' = UpdateCacheProgress(cache, phase, processedCommits,
                                  totalCommits, now)
  /\ UNCHANGED <<cacheFile, backupFile, repoHead, savePc, validation, runs,
                 config, now, otherVars>>

\* storeRawCommits(cache, commits)  (275-278)
StoreRawCommits == Progress("enriching", 0, Len(commits))

\* storeEnrichedCommits(cache, commits)  (283-286)
StoreEnrichedCommits == Progress("classifying", Len(commits), Null)

\* storeClassifiedCommits(cache, commits)  (291-294)
StoreClassifiedCommits ==
  Progress("generating_rules", Len(commits), Null)

\* storeTransformRules(cache, rules)  (299-302)
StoreTransformRules == Progress("applying_rules", Null, Null)

\* storeFinalCommits(cache, commits)  (307-310)
StoreFinalCommits == Progress("complete", Len(commits), Null)

\* updateCacheProgress(cache, phase, processedCommits?, totalCommits?)
\* (256-270)
UpdateProgress ==
  \E k \in 1..Len(PhaseOrder), n, m \in {Null, Len(commits)} :
     Progress(PhaseOrder[k], n, m)

\* saveCache up to the backup: the metadata of the record  (70-76)
SaveCache ==
  /\ savePc = "idle" /\ cache # NoCache
  /\ cache' = [cache EXCEPT !.progress.lastUpdateTime = now]
  /\ savePc' = "backup"
  /\ UNCHANGED <<cacheFile, backupFile, repoHead, validation, runs, config,
                 now, otherVars>>

\* the best-effort backup: fs.copyFile if the file exists  (79-87)
Backup ==
  /\ savePc = "backup"
  /\ \E copied \in BOOLEAN :
       backupFile' = IF cacheFile # NoFile /\ copied
                     THEN BackupOf(cacheFile) ELSE backupFile
  /\ savePc' = "open"
  /\ UNCHANGED <<cache, cacheFile, repoHead, validation, runs, config, now,
                 otherVars>>

\* writeJsonFile: fs.writeFile opens the destination itself, which empties
\* it  (saveCache 90, file.ts 31-34)
OpenFile ==
  /\ savePc = "open"
  /\ cacheFile' = FileOf(cache, 0)
  /\ savePc' = "write"
  /\ UNCHANGED <<cache, backupFile, repoHead, validation, runs, config, now,
                 otherVars>>

\* fs.writeFile writes the JSON text; saveCache returns after the last part
WriteChunk ==
  /\ savePc = "write"
  /\ cacheFile' = FileOf(cacheFile.content, cacheFile.written + 1)
  /\ savePc' = IF cacheFile.written + 1 = SaveChunks THEN "idle" ELSE "write"
  /\ UNCHANGED <<cache, backupFile, repoHead, validation, runs, config, now,
                 otherVars>>

\* the process dies inside saveCache
Crash ==
  /\ savePc \in {"backup", "open", "write"}
  /\ savePc' = "crashed"
  /\ cache' = NoCache
  /\ validation' = "none"
  /\ UNCHANGED <<cacheFile, backupFile, repoHead, runs, config, now,
                 otherVars>>

\* clearCache(cachePath): fs.unlink  (176-187)
ClearCache ==
  /\ savePc = "idle"
  /\ cacheFile' = NoFile
  /\ UNCHANGED <<cache, backupFile, repoHead, savePc, validation, runs,
                 config, now, otherVars>>

\* the tool is started again: nothing of the memory of the last process is
\* left, the files are
NewRun ==
  /\ savePc \in {"idle", "crashed"}
  /\ runs < MaxRuns
  /\ runs' = runs + 1
  /\ cache' = NoCache /\ savePc' = "idle" /\ validation' = "none"
  /\ UNCHANGED <<cacheFile, backupFile, repoHead, config, now, otherVars>>

NextCache ==
  \/ CreateCache
  \/ LoadCache
  \/ Validate
  \/ StoreRawCommits
  \/ StoreEnrichedCommits
  \/ StoreClassifiedCommits
  \/ StoreTransformRules
  \/ StoreFinalCommits
  \/ UpdateProgress
  \/ SaveCache
  \/ Backup
  \/ OpenFile
  \/ WriteChunk
  \/ Crash
  \/ ClearCache
  \/ NewRun

SpecCache == InitCache /\ [][NextCache]_vars


\* ------------------------------------------------------------------------
\* loadCache and validateCache on the cache files a run can find
\* ------------------------------------------------------------------------

\* the records an earlier run, of this or of an older release, can have
\* saved at time 0 with the default settings
StoredRecords ==
  { [CreateCacheRecord(head, gitOk, DefaultConfig, 0)
       EXCEPT !.version = version] :
      head \in Heads, gitOk \in BOOLEAN,
      version \in {CACHE_VERSION, "0.9.0"} }

InitValidate ==
  /\ \E stored \in StoredRecords, written \in {SaveChunks - 1, SaveChunks} :
       cacheFile = FileOf(stored, written)
  /\ config \in CacheConfigs
  /\ repoHead \in Heads
  /\ now \in {0, MaxAgeMs, MaxAgeMs + 1}
  /\ batchManager = NewBatchManager(DefaultConfig)
  /\ commits = << >>
  /\ cache = NoCache /\ backupFile = NoFile
  /\ savePc = "idle" /\ validation = "none" /\ runs = 1
  /\ resume = NoResume
  /\ IdlePipeline /\ IdleLimiter

NextValidate == LoadCache \/ Validate

SpecValidate == InitValidate /\ [][NextValidate]_vars

\* ------------------------------------------------------------------------
\* canResumeFromPhase on a checkpoint in any phase  (390-404)
\* ------------------------------------------------------------------------

\* currentPhaseIndex >= targetPhaseIndex
CanResumeFromLaterPhase(c, phase) ==
  IndexOf(c.progress.phase) > IndexOf(phase)
CanResumeFromPhase(c, phase) ==
  IndexOf(c.progress.phase) >= IndexOf(phase)

\* a checkpoint has just been created
InitResume ==
  /\ config = DefaultConfig
  /\ batchManager = NewBatchManager(DefaultConfig)
  /\ commits \in { RawCommits(n) : n \in 1..MaxStored }
  /\ now = 0
  /\ repoHead \in Heads
  /\ \E gitOk \in BOOLEAN :
       cache = CreateCacheRecord(repoHead, gitOk, config, now)
  /\ cacheFile = NoFile /\ backupFile = NoFile
  /\ savePc = "idle" /\ validation = "none" /\ runs = 1
  /\ resume = NoResume
  /\ IdlePipeline /\ IdleLimiter

\* canResumeFromPhase(cache, phase)
CanResume ==
  /\ savePc = "idle" /\ cache # NoCache
  /\ \E k \in 1..Len(PhaseOrder) :
       resume' = [asked |-> TRUE, current |-> cache.progress.phase,
                  target |-> PhaseOrder[k],
                  answer |-> CanResumeFromPhase(cache, PhaseOrder[k])]
  /\ UNCHANGED <<cache, cacheFile, backupFile, repoHead, savePc, validation,
                 runs, config, now, limiterVars, batchManager, pipelineVars>>

NextResume ==
  \/ StoreRawCommits
  \/ StoreEnrichedCommits
  \/ StoreClassifiedCommits
  \/ StoreTransformRules
  \/ StoreFinalCommits
  \/ UpdateProgress
  \/ CanResume

SpecResume == InitResume /\ [][NextResume]_vars

\* the place of a phase in fetching, enriching, classifying,
\* generating_rules, applying_rules, complete
Rank(phase) ==
  CASE phase = "fetching" -> 0
    [] phase = "enriching" -> 1
    [] phase = "classifying" -> 2
    [] phase = "generating_rules" -> 3
    [] phase = "applying_rules" -> 4
    [] phase = "complete" -> 5

\* C23: for every checkpoint phase c and requested phase p of the six
\* phases, canResumeFromPhase answers true exactly when c comes at or after
\* p in the phase order.
ResumeIffNotEarlier ==
  resume.asked =>
    (resume.answer <=> Rank(resume.current) >= Rank(resume.target))

\* C23 witness: a checkpoint in phase classifying was asked whether it can
\* resume from classifying, and answered yes.
ResumedFromOwnPhase ==
  /\ resume.asked
  /\ resume.current = "classifying" /\ resume.target = "classifying"
  /\ resume.answer
  /\ cache.progress.phase = "classifying"
  /\ cache.progress.processedCommits = Len(commits)

\* C15: when the process dies at any point of saveCache, the file at the
\* destination holds a complete record (the previous one or the new one),
\* never a partial one.
CrashLeavesCompleteFile ==
  savePc = "crashed" => FileComplete(cacheFile)

\* C16: a stored checkpoint is accepted only if its version is the current
\* one, its repository hash is the HEAD of the repository now, its
\* configuration hash is that of the configuration now and it is at most 7
\* days old.
AcceptedOnlyIfCurrent ==
  validation = "accepted" =>
    /\ cache.version = CACHE_VERSION
    /\ cache.repoHash = repoHead
    /\ CreateConfigHash(WithApiKey(cache.config, config.apiKey))
         = CreateConfigHash(config)
    /\ now - cache.timestamp <= MaxAgeMs

\* C17: a checkpoint accepted by validateCache was written under a
\* configuration that agrees with the current one in every tunable.
RetunedConfigRejected ==
  validation = "accepted" =>
    \A f \in Tunables : cache.config[f] = config[f]

\* C18: no store* or updateCacheProgress call on a checkpoint moves its
\* phase to an earlier one of phaseOrder.
PhaseNeverGoesBack ==
  [][ (\/ StoreRawCommits \/ StoreEnrichedCommits \/ StoreClassifiedCommits
       \/ StoreTransformRules \/ StoreFinalCommits \/ UpdateProgress)
      => IndexOf(cache'.progress.phase) >= IndexOf(cache.progress.phase) ]_vars
====
